---- MODULE Spec2Model ----
(***************************************************************************)
(* Event management and coworking booking backend (FastAPI routers,        *)
(* services, SQLAlchemy repositories over PostgreSQL).                      *)
(*                                                                         *)
(* The committed database is the state; every request handler is a         *)
(* process whose steps are the units of work (transactions) it opens, one   *)
(* after another.  PostgreSQL runs them READ COMMITTED: a statement sees    *)
(* what is committed when it starts plus the writes of its own              *)
(* transaction.  A transaction whose remaining statements cannot be        *)
(* observed or influenced by another one is one step, taken at its commit.  *)
(***************************************************************************)
EXTENDS Integers, FiniteSets, Sequences, Bags, TLC

VARIABLES
    event,               \* table event: set of rows
    organizer,           \* table organizer: set of rows
    event_organizer,     \* table event_organizer: set of link rows
    event_registration,  \* table event_registration: bag of rows (id never read)
    coworking_space,     \* table coworking_space: set of rows
    coworking_booking,   \* table coworking_booking: bag of rows (id never read)
    coworking_occupancy, \* table coworking_occupancy: bag of rows (id never read)
    uuid_count,          \* number of uuid4() values handed out so far
    ncalls,              \* number of calls issued so far
    pc,                  \* per handler: the unit of work it is about to run
    req,                 \* per handler: the request it serves
    loc,                 \* per handler: its local variables
    resp                 \* per handler: the response / raised error of the call

vars == <<event, organizer, event_organizer, event_registration,
          coworking_space, coworking_booking, coworking_occupancy,
          uuid_count, ncalls, pc, req, loc, resp>>

eventTables == <<event, organizer, event_organizer, event_registration>>
coworkingTables == <<coworking_space, coworking_booking, coworking_occupancy>>

----------------------------------------------------------------------------
(* Bounds of the model *)

\* calls a run of two concurrent handlers issues
MaxCalls == 3
\* calls a run of one client issues, one after another
MaxSeqCalls == 3
\* coworking calls a run of two concurrent handlers issues
MaxCoworkingCalls == 4
\* coworking calls a run of one client issues (must pass max_bookings)
MaxSeqCoworkingCalls == 13
\* coworking spaces a run creates
MaxSpaces == 2
\* calls issued in a run over every table
MaxAllCalls == 3

Procs == {"p1", "p2"}

Titles == {"Demo", "Other"}
\* booking dates
Dates == {"d1", "d2"}

None == "None"
NoUuid == 0

----------------------------------------------------------------------------
(* HTTP status codes used by the routers *)

HTTP_200_OK == 200
HTTP_201_CREATED == 201
HTTP_204_NO_CONTENT == 204
HTTP_400_BAD_REQUEST == 400
HTTP_404_NOT_FOUND == 404
HTTP_409_CONFLICT == 409
HTTP_500_INTERNAL_SERVER_ERROR == 500

----------------------------------------------------------------------------
(* Datetimes *)

DateTime(min, sec, off) == [min |-> min, sec |-> sec, off |-> off]

\* two datetimes of one minute, differing in their seconds
MinuteDates == {DateTime(1, 0, 0), DateTime(1, 30, 0)}
\* and one of the same instant as the first under another offset, one of the
\* same wall-clock minute under another offset
StartDates == MinuteDates \cup {DateTime(2, 0, 1), DateTime(1, 0, 1)}

\* A timestamptz column stores the instant; asyncpg hands it back in UTC.
ToUTC(d) == [min |-> d.min - d.off, sec |-> d.sec, off |-> 0]

\* event_service.py 83-88: year, month, day, hour and minute fields equal
SameMinuteFields(event_date, start_date) == event_date.min = start_date.min

----------------------------------------------------------------------------
(* Errors *)

NoError == [type |-> "none", dupkey |-> FALSE, constraint |-> None]
\* any failure of the driver / connection that is not an integrity failure
OperationalError == [type |-> "OperationalError", dupkey |-> FALSE, constraint |-> None]
UniqueViolationError ==
    [type |-> "IntegrityError", dupkey |-> TRUE, constraint |-> "uq_event_title_start_date"]
ForeignKeyViolationError(name) ==
    [type |-> "IntegrityError", dupkey |-> FALSE, constraint |-> name]
EventDuplicateError == [type |-> "EventDuplicateError", dupkey |-> FALSE, constraint |-> None]
CoworkingError == [type |-> "CoworkingError", dupkey |-> FALSE, constraint |-> None]
HTTPException404 == [type |-> "HTTPException404", dupkey |-> FALSE, constraint |-> None]

\* the duplicate pre-check of create_event found a colliding event
PreCheckHit == [type |-> "precheck", dupkey |-> FALSE, constraint |-> None]

NoStartDate == [min |-> 0, sec |-> 0, off |-> 0]
NoReq == [op |-> "none"]
NoLoc == [organizer_id |-> NoUuid]
NoResp == [status |-> 0, raised |-> NoError, cause |-> NoError, id |-> NoUuid]

Response(status, raised, cause, id) ==
    [status |-> status, raised |-> raised, cause |-> cause, id |-> id]

----------------------------------------------------------------------------
(* Schema constraints (tables.py) *)

\* the table without its unique constraint
UqNotEnforced(rows, title, start_date, self) == FALSE

\* UniqueConstraint("title", "start_date") on event, for a row to be written
\* under id `self` (an UPDATE does not collide with the row it rewrites)
UqEventTitleStartDate(rows, title, start_date, self) ==
    \E e \in rows : e.id # self /\ e.title = title /\ e.start_date = start_date

EventIds == {e.id : e \in event}
OrganizerIds == {o.id : o \in organizer}
SpaceIds == {s.id : s \in coworking_space}

\* the ids a request can name: those of the rows there are, and one of no row
RequestEventIds == EventIds \cup {uuid_count + 1}
RequestOrganizerIds == OrganizerIds \cup {uuid_count + 1}

\* foreign keys that let the links of a deleted row stay
NoCascadeEventLinks(links, event_ids, organizer_ids) == links

\* ForeignKey(..., ondelete="CASCADE") from event_organizer / event_registration
CascadeEventLinks(links, event_ids, organizer_ids) ==
    {l \in links : l.event_id \in event_ids /\ l.organizer_id \in organizer_ids}

\* rows of a bag that satisfy P are kept
BagFilter(B, Keep(_)) ==
    [r \in {x \in DOMAIN B : Keep(x)} |-> B[r]]

BagAdd(B, r) == B (+) SetToBag({r})

----------------------------------------------------------------------------
Init ==
    /\ event = {}
    /\ organizer = {}
    /\ event_organizer = {}
    /\ event_registration = EmptyBag
    /\ coworking_space = {}
    /\ coworking_booking = EmptyBag
    /\ coworking_occupancy = EmptyBag
    /\ uuid_count = 0
    /\ ncalls = 0
    /\ pc = [p \in Procs |-> "idle"]
    /\ req = [p \in Procs |-> NoReq]
    /\ loc = [p \in Procs |-> NoLoc]
    /\ resp = [p \in Procs |-> NoResp]

\* the handler finishes its call: the response goes out
Finish(p, r) ==
    /\ pc' = [pc EXCEPT ![p] = "done"]
    /\ resp' = [resp EXCEPT ![p] = r]

Goto(p, label) ==
    /\ pc' = [pc EXCEPT ![p] = label]
    /\ UNCHANGED resp

Return(p) ==
    /\ pc[p] = "done"
    /\ pc' = [pc EXCEPT ![p] = "idle"]
    /\ req' = [req EXCEPT ![p] = NoReq]
    /\ loc' = [loc EXCEPT ![p] = NoLoc]
    /\ resp' = [resp EXCEPT ![p] = NoResp]
    /\ UNCHANGED <<ncalls, eventTables, coworkingTables, uuid_count>>

----------------------------------------------------------------------------
(* EventService.create_event behind POST /events/ *)

\* event_service.py 80-89: the scan of get_all_events() for a collision
PreCheckDuplicate(events, title, start_date) ==
    \E e \in events :
        e.title = title /\ SameMinuteFields(e.start_date, start_date)

\* a lookup that never finds the organizer
FindOrganizerNever(organizers, name) == {}

\* event_service.py 103-106: the organizers whose name matches exactly; the
\* SELECT has no ORDER BY, so any of them can come first
FindOrganizer(organizers, name) == {o \in organizers : o.name = name}

\* organizer_repository.py 101-115: only the supplied fields are written
UpdateOrganizerRows(organizers, organizer_id, description, image_path) ==
    {IF o.id = organizer_id
        THEN [o EXCEPT !.description = IF description # None THEN description ELSE @,
                       !.image_path = IF image_path # None THEN image_path ELSE @]
        ELSE o : o \in organizers}

\* every integrity failure taken for the duplicate
CreateEventErrorAnyIntegrity(e) ==
    IF e.type = "IntegrityError" THEN EventDuplicateError ELSE e

\* event_service.py 151-155: what the service raises for an error of the insert
CreateEventError(e) ==
    IF e.type = "IntegrityError" /\ e.dupkey /\ e.constraint = "uq_event_title_start_date"
        THEN EventDuplicateError
        ELSE e

\* event_router.py 134-146: the status POST /events/ answers with
CreateEventStatus(raised) ==
    IF raised = NoError THEN HTTP_201_CREATED
    ELSE IF raised = EventDuplicateError THEN HTTP_409_CONFLICT
    ELSE HTTP_500_INTERNAL_SERVER_ERROR

\* the outcome of the INSERTs of EventRepository.create_event, one transaction
InsertEventError(title, start_date, organizer_id) ==
    IF UqEventTitleStartDate(event, title, start_date, NoUuid)
        THEN UniqueViolationError
    ELSE IF organizer_id # NoUuid /\ organizer_id \notin OrganizerIds
        THEN ForeignKeyViolationError("event_organizer_organizer_id_fkey")
    ELSE NoError

OneOrganizerArgs ==
    {[name |-> None, description |-> None, image_path |-> None],
     [name |-> "Acme", description |-> None, image_path |-> None],
     [name |-> "Acme", description |-> "about", image_path |-> None]}
OrganizerArgs ==
    OneOrganizerArgs \cup
        {[name |-> "Beta", description |-> None, image_path |-> "logo.png"]}

\* the inputs a run draws from: its budget of calls, the start dates and the
\* organizer details of its requests
Concurrent ==
    [cap |-> MaxCalls, dates |-> MinuteDates, orgs |-> OneOrganizerArgs,
     new_titles |-> {None, "Demo"}, new_dates |-> {NoStartDate, DateTime(1, 0, 0)},
     new_locations |-> {None}]
OneClient ==
    [cap |-> MaxSeqCalls, dates |-> StartDates, orgs |-> OrganizerArgs,
     new_titles |-> {None} \cup Titles, new_dates |-> {NoStartDate} \cup StartDates,
     new_locations |-> {None, "Hall"}]

\* a call is issued
Issue(in) ==
    /\ ncalls < in.cap
    /\ ncalls' = ncalls + 1

StartCreateEvent(p, in) ==
    /\ pc[p] = "idle"
    /\ Issue(in)
    /\ \E title \in Titles, start_date \in in.dates, org \in in.orgs :
        /\ req' = [req EXCEPT ![p] =
                [op |-> "create_event", title |-> title, start_date |-> start_date,
                 organizer_name |-> org.name,
                 organizer_description |-> org.description,
                 organizer_image_path |-> org.image_path]]
    /\ loc' = [loc EXCEPT ![p] = NoLoc]
    /\ Goto(p, "ce_precheck")
    /\ UNCHANGED <<eventTables, coworkingTables, uuid_count>>

\* the duplicate swallowed with every other error of the pre-check
PreCheckErrorSwallowAll(e) == NoError

\* a pre-check without its except block: every error of the scan leaves it
PreCheckErrorRaiseAll(e) == e

\* event_service.py 90-95: what leaves the try block of the pre-check: the
\* EventDuplicateError is raised again, any other error is logged and dropped
PreCheckError(e) == IF e = EventDuplicateError THEN e ELSE NoError

\* event_service.py 77-95; the error the pre-check logs and drops stays in
\* resp[p].cause until the call ends
CePrecheck(p) ==
    /\ pc[p] = "ce_precheck"
    /\ \E fail \in BOOLEAN :
        LET e == IF fail THEN OperationalError
                 ELSE IF PreCheckDuplicate(event, req[p].title, req[p].start_date)
                   THEN EventDuplicateError
                 ELSE NoError
            raised == PreCheckError(e)
        IN  IF raised # NoError
              THEN Finish(p, Response(CreateEventStatus(raised), raised,
                                      PreCheckHit, NoUuid))
              ELSE /\ pc' = [pc EXCEPT ![p] = IF req[p].organizer_name # None
                                                THEN "ce_lookup" ELSE "ce_insert"]
                   /\ resp' = [resp EXCEPT ![p].cause = e]
    /\ UNCHANGED <<ncalls, eventTables, coworkingTables, uuid_count, req, loc>>

\* event_service.py 100-121
CeLookup(p) ==
    /\ pc[p] = "ce_lookup"
    /\ \E fail \in BOOLEAN :
        IF fail
            THEN /\ Finish(p, Response(CreateEventStatus(OperationalError),
                                       OperationalError, OperationalError, NoUuid))
                 /\ UNCHANGED loc
        ELSE IF FindOrganizer(organizer, req[p].organizer_name) = {}
            THEN /\ Goto(p, "ce_orgcreate")
                 /\ UNCHANGED loc
        ELSE \E existing_organizer \in FindOrganizer(organizer, req[p].organizer_name) :
                 /\ loc' = [loc EXCEPT ![p].organizer_id = existing_organizer.id]
                 /\ Goto(p, IF req[p].organizer_description # None
                                \/ req[p].organizer_image_path # None
                             THEN "ce_orgupdate" ELSE "ce_insert")
    /\ UNCHANGED <<ncalls, eventTables, coworkingTables, uuid_count, req>>

\* event_service.py 124-129, organizer_repository.py 81-117
CeOrgUpdate(p) ==
    /\ pc[p] = "ce_orgupdate"
    /\ \E fail \in BOOLEAN :
        IF fail
            THEN /\ Finish(p, Response(CreateEventStatus(OperationalError),
                                       OperationalError, OperationalError, NoUuid))
                 /\ UNCHANGED organizer
            ELSE /\ organizer' = UpdateOrganizerRows(organizer, loc[p].organizer_id,
                                    req[p].organizer_description,
                                    req[p].organizer_image_path)
                 /\ Goto(p, "ce_insert")
    /\ UNCHANGED <<ncalls, event, event_organizer, event_registration, coworkingTables,
                   uuid_count, req, loc>>

\* event_service.py 132-137, organizer_repository.py 47-79
CeOrgCreate(p) ==
    /\ pc[p] = "ce_orgcreate"
    /\ uuid_count' = uuid_count + 1
    /\ \E fail \in BOOLEAN :
        IF fail
            THEN /\ Finish(p, Response(CreateEventStatus(OperationalError),
                                       OperationalError, OperationalError, NoUuid))
                 /\ UNCHANGED <<organizer, loc>>
            ELSE /\ organizer' = organizer \cup
                        {[id |-> uuid_count', name |-> req[p].organizer_name,
                          description |-> req[p].organizer_description,
                          image_path |-> req[p].organizer_image_path]}
                 /\ loc' = [loc EXCEPT ![p].organizer_id = uuid_count']
                 /\ Goto(p, "ce_insert")
    /\ UNCHANGED <<ncalls, event, event_organizer, event_registration, coworkingTables, req>>

\* the INSERT of the event committed on its own: a failure of the link's
\* INSERT comes too late to undo it
EventRowsAutocommit(events, row, err) ==
    IF err = NoError \/ (err.type = "IntegrityError" /\ ~err.dupkey)
        THEN events \cup {row} ELSE events

\* event_repository.py 110-134: the event rows once the transaction of the two
\* INSERTs is over: session.begin() commits both or neither
EventRowsAfterInsert(events, row, err) ==
    IF err = NoError THEN events \cup {row} ELSE events

\* event_service.py 139-155, event_repository.py 108-136, event_router.py 134-146
CeInsert(p) ==
    /\ pc[p] = "ce_insert"
    /\ uuid_count' = uuid_count + 1
    /\ \E fail \in BOOLEAN :
        LET event_id == uuid_count'
            start_date == ToUTC(req[p].start_date)
            err == IF fail THEN OperationalError
                   ELSE InsertEventError(req[p].title, start_date, loc[p].organizer_id)
            raised == CreateEventError(err)
        IN  /\ Finish(p, Response(CreateEventStatus(raised), raised, err,
                                  IF err = NoError THEN event_id ELSE NoUuid))
            /\ event' = EventRowsAfterInsert(event,
                            [id |-> event_id, title |-> req[p].title,
                             start_date |-> start_date, location |-> "Room",
                             updated_at |-> 0], err)
            /\ event_organizer' =
                    IF err = NoError /\ loc[p].organizer_id # NoUuid
                      THEN event_organizer \cup
                            {[event_id |-> event_id,
                              organizer_id |-> loc[p].organizer_id]}
                      ELSE event_organizer
    /\ UNCHANGED <<ncalls, organizer, event_registration, coworkingTables, req, loc>>

----------------------------------------------------------------------------
(* EventService.update_event (no router calls it) *)

\* event_service.py 195-199: what the service raises for an error of the update
UpdateEventError(e) ==
    IF e.type = "IntegrityError" /\ e.dupkey /\ e.constraint = "uq_event_title_start_date"
        THEN EventDuplicateError
        ELSE e

\* an UPDATE that writes every field, supplied or not
UpdatedEventRowOverwriteAll(e, title, start_date, location) ==
    [e EXCEPT !.title = title, !.start_date = ToUTC(start_date),
              !.location = location, !.updated_at = @ + 1]

\* event_repository.py 168-187: the row after UPDATE event SET <supplied
\* fields>, updated_at = now(); updated_at counts the writes of the row
UpdatedEventRow(e, title, start_date, location) ==
    [e EXCEPT !.title = IF title # None THEN title ELSE @,
              !.start_date = IF start_date # NoStartDate THEN ToUTC(start_date) ELSE @,
              !.location = IF location # None THEN location ELSE @,
              !.updated_at = @ + 1]

\* the outcome of the statements of EventRepository.update_event, one transaction
UpdateEventDbError(event_id, title, start_date, organizer_id) ==
    IF \E e \in event :
           /\ e.id = event_id
           /\ UqEventTitleStartDate(event,
                    UpdatedEventRow(e, title, start_date, None).title,
                    UpdatedEventRow(e, title, start_date, None).start_date, e.id)
        THEN UniqueViolationError
    ELSE IF organizer_id # NoUuid /\ event_id \notin EventIds
        THEN ForeignKeyViolationError("event_organizer_event_id_fkey")
    ELSE IF organizer_id # NoUuid /\ organizer_id \notin OrganizerIds
        THEN ForeignKeyViolationError("event_organizer_organizer_id_fkey")
    ELSE NoError

\* the link of the update added to the links the event has
MergeOrganizerLink(links, event_id, organizer_id) ==
    links \cup {[event_id |-> event_id, organizer_id |-> organizer_id]}

\* event_repository.py 189-203: delete the event's links, insert the new one
ReplaceOrganizerLink(links, event_id, organizer_id) ==
    {l \in links : l.event_id # event_id} \cup
        {[event_id |-> event_id, organizer_id |-> organizer_id]}

\* the UPDATE of the event committed on its own: a failure of the link's
\* INSERT comes too late to undo it
EventRowsUpdateAutocommit(events, event_id, title, start_date, location, err) ==
    IF err = NoError \/ (err.type = "IntegrityError" /\ ~err.dupkey)
        THEN {IF e.id = event_id THEN UpdatedEventRow(e, title, start_date, location)
                                 ELSE e : e \in events}
        ELSE events

\* event_repository.py 165-203: the event rows once the transaction of the
\* UPDATE and the link's DELETE and INSERT is over: session.begin() commits
\* all of them or none
EventRowsAfterUpdate(events, event_id, title, start_date, location, err) ==
    IF err = NoError
        THEN {IF e.id = event_id THEN UpdatedEventRow(e, title, start_date, location)
                                 ELSE e : e \in events}
        ELSE events

\* event_service.py 157-199, event_repository.py 138-205
UpdateEvent(p, in) ==
    /\ pc[p] = "idle"
    /\ Issue(in)
    /\ \E event_id \in RequestEventIds, title \in in.new_titles,
          start_date \in in.new_dates, location \in in.new_locations,
          organizer_id \in {NoUuid} \cup RequestOrganizerIds, fail \in BOOLEAN :
        LET err == IF fail THEN OperationalError
                   ELSE UpdateEventDbError(event_id, title, start_date, organizer_id)
            raised == UpdateEventError(err)
        IN  /\ req' = [req EXCEPT ![p] =
                    [op |-> "update_event", event_id |-> event_id, title |-> title,
                     start_date |-> start_date, location |-> location,
                     organizer_id |-> organizer_id]]
            /\ Finish(p, Response(0, raised, err, NoUuid))
            /\ event' = EventRowsAfterUpdate(event, event_id, title, start_date,
                                              location, err)
            /\ IF err = NoError
                 THEN /\ event_organizer' =
                            IF organizer_id # NoUuid
                              THEN ReplaceOrganizerLink(event_organizer, event_id, organizer_id)
                              ELSE event_organizer
                 ELSE UNCHANGED event_organizer
    /\ UNCHANGED <<organizer, event_registration, coworkingTables, uuid_count, loc>>

----------------------------------------------------------------------------
(* DELETE /events/{event_id} *)

StartDeleteEvent(p, in) ==
    /\ pc[p] = "idle"
    /\ Issue(in)
    /\ \E event_id \in RequestEventIds :
        req' = [req EXCEPT ![p] = [op |-> "delete_event", event_id |-> event_id]]
    /\ Goto(p, "de_check")
    /\ UNCHANGED <<eventTables, coworkingTables, uuid_count, loc>>

\* event_router.py 180-184
DeCheck(p) ==
    /\ pc[p] = "de_check"
    /\ \E fail \in BOOLEAN :
        IF fail
            THEN Finish(p, Response(HTTP_500_INTERNAL_SERVER_ERROR,
                                    OperationalError, OperationalError, NoUuid))
        ELSE IF req[p].event_id \notin EventIds
            THEN Finish(p, Response(HTTP_404_NOT_FOUND, HTTPException404, NoError, NoUuid))
        ELSE Goto(p, "de_delete")
    /\ UNCHANGED <<ncalls, eventTables, coworkingTables, uuid_count, req, loc>>

\* event_router.py 186-195, event_repository.py 207-224; the foreign keys of
\* event_organizer and event_registration cascade
DeDelete(p) ==
    /\ pc[p] = "de_delete"
    /\ \E fail \in BOOLEAN :
        IF fail
            THEN /\ Finish(p, Response(HTTP_500_INTERNAL_SERVER_ERROR,
                                       OperationalError, OperationalError, NoUuid))
                 /\ UNCHANGED <<event, event_organizer, event_registration>>
            ELSE /\ event' = {e \in event : e.id # req[p].event_id}
                 /\ event_organizer' =
                        CascadeEventLinks(event_organizer, EventIds \ {req[p].event_id},
                                          OrganizerIds)
                 /\ event_registration' =
                        BagFilter(event_registration,
                                  LAMBDA r : r.event_id # req[p].event_id)
                 /\ Finish(p, Response(HTTP_204_NO_CONTENT, NoError, NoError, NoUuid))
    /\ UNCHANGED <<ncalls, organizer, coworkingTables, uuid_count, req, loc>>

----------------------------------------------------------------------------
(* POST /events/{event_id}/register *)

StartRegister(p, in) ==
    /\ pc[p] = "idle"
    /\ Issue(in)
    /\ \E event_id \in RequestEventIds :
        req' = [req EXCEPT ![p] = [op |-> "register", event_id |-> event_id]]
    /\ Goto(p, "rg_check")
    /\ UNCHANGED <<eventTables, coworkingTables, uuid_count, loc>>

\* event_router.py 156-160
RgCheck(p) ==
    /\ pc[p] = "rg_check"
    /\ \E fail \in BOOLEAN :
        IF fail
            THEN Finish(p, Response(HTTP_500_INTERNAL_SERVER_ERROR,
                                    OperationalError, OperationalError, NoUuid))
        ELSE IF req[p].event_id \notin EventIds
            THEN Finish(p, Response(HTTP_404_NOT_FOUND, HTTPException404, NoError, NoUuid))
        ELSE Goto(p, "rg_insert")
    /\ UNCHANGED <<ncalls, eventTables, coworkingTables, uuid_count, req, loc>>

\* the outcome of the INSERT of EventService.register_participant
RegisterDbError(event_id) ==
    IF event_id \notin EventIds
        THEN ForeignKeyViolationError("event_registration_event_id_fkey")
        ELSE NoError

\* event_router.py 162-170: nothing is caught, so an error leaves the handler
\* and the framework answers 500
RegisterStatus(raised) ==
    IF raised = NoError THEN HTTP_200_OK ELSE HTTP_500_INTERNAL_SERVER_ERROR

\* event_service.py 213-256
RgInsert(p) ==
    /\ pc[p] = "rg_insert"
    /\ \E fail \in BOOLEAN :
        LET err == IF fail THEN OperationalError ELSE RegisterDbError(req[p].event_id)
        IN  /\ Finish(p, Response(RegisterStatus(err), err, err, NoUuid))
            /\ event_registration' =
                    IF err = NoError
                      THEN BagAdd(event_registration, [event_id |-> req[p].event_id])
                      ELSE event_registration
    /\ UNCHANGED <<ncalls, event, organizer, event_organizer, coworkingTables, uuid_count,
                   req, loc>>

----------------------------------------------------------------------------
(* OrganizerRepository.delete_organizer (no service calls it) *)

\* organizer_repository.py 119-136; the foreign key of event_organizer cascades
DeleteOrganizer(p, in) ==
    /\ pc[p] = "idle"
    /\ Issue(in)
    /\ \E organizer_id \in OrganizerIds :
        /\ req' = [req EXCEPT ![p] =
                    [op |-> "delete_organizer", organizer_id |-> organizer_id]]
        /\ organizer' = {o \in organizer : o.id # organizer_id}
        /\ event_organizer' =
                CascadeEventLinks(event_organizer, EventIds, OrganizerIds \ {organizer_id})
    /\ Finish(p, Response(0, NoError, NoError, NoUuid))
    /\ UNCHANGED <<event, event_registration, coworkingTables, uuid_count, loc>>

----------------------------------------------------------------------------
(* The event model: two handlers, any interleaving of their units of work *)

EventStep(p, in) ==
    \/ StartCreateEvent(p, in)
    \/ CePrecheck(p)
    \/ CeLookup(p)
    \/ CeOrgUpdate(p)
    \/ CeOrgCreate(p)
    \/ CeInsert(p)
    \/ UpdateEvent(p, in)
    \/ StartDeleteEvent(p, in)
    \/ DeCheck(p)
    \/ DeDelete(p)
    \/ StartRegister(p, in)
    \/ RgCheck(p)
    \/ RgInsert(p)
    \/ DeleteOrganizer(p, in)
    \/ Return(p)

Next == \E p \in Procs : EventStep(p, Concurrent)

Spec == Init /\ [][Next]_vars

\* one client: each call runs to completion before the next one is issued
NextSeq == EventStep("p1", OneClient)

SpecSeq == Init /\ [][NextSeq]_vars

----------------------------------------------------------------------------
(* Coworking: CoworkingService and CoworkingRepository behind /coworking *)

\* coworking_repository.py 231-233: int((booking_count / max_bookings) * 100),
\* capped at 100.  The float quotient times 100 truncates to the exact
\* integer for every count below max_bookings, and is at least 100 from there on.
max_bookings == 10
\* the percentage without its cap
OccupancyPercentageUncapped(booking_count) == (booking_count * 100) \div max_bookings

OccupancyPercentage(booking_count) ==
    LET percentage == (booking_count * 100) \div max_bookings
    IN  IF percentage < 100 THEN percentage ELSE 100

\* the INSERT committed on its own, outside the transaction of the upsert
AfterInsertBookingAutocommit(bookings, row) == BagAdd(bookings, row)

\* coworking_repository.py 166-178: what the other transactions see of
\* coworking_booking once the INSERT has run inside session.begin(): nothing new
AfterInsertBooking(bookings, row) == bookings

\* a count that misses the transaction's own INSERT
CountBookingsCommittedOnly(bookings, own, coworking_id, booking_date) ==
    CopiesIn([coworking_id |-> coworking_id, booking_date |-> booking_date], bookings)

\* coworking_repository.py 224-229: SELECT count(*) of the bookings of the space
\* on the date, the transaction's own INSERT included
CountBookings(bookings, own, coworking_id, booking_date) ==
    CopiesIn([coworking_id |-> coworking_id, booking_date |-> booking_date],
             bookings (+) own)

\* coworking_repository.py 236-241: the occupancy rows of the space on the date
OccupancyRows(occupancy, coworking_id, date) ==
    {r \in BagToSet(occupancy) : r.coworking_id = coworking_id /\ r.date = date}

\* an upsert that never lowers a stored percentage
UpsertOccupancyKeepGreater(occupancy, existing_record, coworking_id, date, percentage) ==
    IF existing_record
        /\ \E r \in BagToSet(occupancy) :
                /\ r.coworking_id = coworking_id /\ r.date = date
                /\ r.occupancy_percentage > percentage
        THEN occupancy
        ELSE IF existing_record
            THEN LET kept == BagFilter(occupancy,
                                LAMBDA r : ~(r.coworking_id = coworking_id /\ r.date = date))
                     hit == BagCardinality(occupancy) - BagCardinality(kept)
                     row == [coworking_id |-> coworking_id, date |-> date,
                             occupancy_percentage |-> percentage]
                 IN  IF hit = 0 THEN kept ELSE kept (+) [r \in {row} |-> hit]
            ELSE BagAdd(occupancy, [coworking_id |-> coworking_id, date |-> date,
                                    occupancy_percentage |-> percentage])

\* an upsert whose UPDATE lost the date of its WHERE clause: it writes the
\* rows of the space on every date
UpsertOccupancyWholeSpace(occupancy, existing_record, coworking_id, date, percentage) ==
    IF existing_record
        THEN LET kept == BagFilter(occupancy, LAMBDA r : r.coworking_id # coworking_id)
                 hit == BagCardinality(occupancy) - BagCardinality(kept)
                 row == [coworking_id |-> coworking_id, date |-> date,
                         occupancy_percentage |-> percentage]
             IN  IF hit = 0 THEN kept ELSE kept (+) [r \in {row} |-> hit]
        ELSE BagAdd(occupancy, [coworking_id |-> coworking_id, date |-> date,
                                occupancy_percentage |-> percentage])

\* an upsert that lost its INSERT branch: it writes the rows there are
UpsertOccupancyUpdateOnly(occupancy, existing_record, coworking_id, date, percentage) ==
    LET kept == BagFilter(occupancy,
                    LAMBDA r : ~(r.coworking_id = coworking_id /\ r.date = date))
        hit == BagCardinality(occupancy) - BagCardinality(kept)
        row == [coworking_id |-> coworking_id, date |-> date,
                occupancy_percentage |-> percentage]
    IN  IF hit = 0 THEN occupancy ELSE kept (+) [r \in {row} |-> hit]

\* coworking_repository.py 243-267: UPDATE the rows there are, or INSERT one
UpsertOccupancy(occupancy, existing_record, coworking_id, date, percentage) ==
    IF existing_record
        THEN LET kept == BagFilter(occupancy,
                            LAMBDA r : ~(r.coworking_id = coworking_id /\ r.date = date))
                 hit == BagCardinality(occupancy) - BagCardinality(kept)
                 row == [coworking_id |-> coworking_id, date |-> date,
                         occupancy_percentage |-> percentage]
             IN  IF hit = 0 THEN kept ELSE kept (+) [r \in {row} |-> hit]
        ELSE BagAdd(occupancy, [coworking_id |-> coworking_id, date |-> date,
                                occupancy_percentage |-> percentage])

\* coworking_service.py: every error of the repository is wrapped
WrapCoworkingError(e) == IF e = NoError THEN NoError ELSE CoworkingError

\* the handlers without their "except HTTPException: raise": the 404 falls
\* to the handler of every other exception
CoworkingStatusNoPassThrough(raised, success) ==
    IF raised = NoError THEN success
    ELSE IF raised = CoworkingError THEN HTTP_400_BAD_REQUEST
    ELSE HTTP_500_INTERNAL_SERVER_ERROR

\* coworking_router.py 171-185 (and 212-226, 134-145): the status answered
CoworkingStatus(raised, success) ==
    IF raised = NoError THEN success
    ELSE IF raised = CoworkingError THEN HTTP_400_BAD_REQUEST
    ELSE IF raised = HTTPException404 THEN HTTP_404_NOT_FOUND
    ELSE HTTP_500_INTERNAL_SERVER_ERROR

\* a foreign key that lets the rows of a deleted space stay
NoCascadeSpaceRows(rows, coworking_id) == rows

\* tables.py 86, 99: ForeignKey("coworking_space.id", ondelete="CASCADE") of
\* coworking_booking and coworking_occupancy: the rows left by the DELETE of a space
CascadeSpaceRows(rows, coworking_id) ==
    BagFilter(rows, LAMBDA r : r.coworking_id # coworking_id)

RequestSpaceIds == SpaceIds \cup {uuid_count + 1}

\* the open transactions that hold the key-share lock of the space's row:
\* their booking INSERT has checked the foreign key
HoldsSpaceLock(coworking_id) ==
    \E q \in Procs : /\ pc[q] \in {"bk_count", "bk_exists", "bk_upsert"}
                     /\ req[q].coworking_id = coworking_id

\* coworking_router.py 126-145, coworking_service.py 43-77,
\* coworking_repository.py 47-82
CreateCoworkingSpace(p, in) ==
    /\ pc[p] = "idle"
    /\ Issue(in)
    /\ uuid_count < in.spaces
    /\ uuid_count' = uuid_count + 1
    /\ req' = [req EXCEPT ![p] = [op |-> "create_coworking_space"]]
    /\ \E fail \in BOOLEAN :
        LET raised == WrapCoworkingError(IF fail THEN OperationalError ELSE NoError)
        IN  /\ Finish(p, Response(CoworkingStatus(raised, HTTP_201_CREATED), raised,
                                  IF fail THEN OperationalError ELSE NoError,
                                  IF fail THEN NoUuid ELSE uuid_count'))
            /\ coworking_space' = IF fail THEN coworking_space
                                  ELSE coworking_space \cup {[id |-> uuid_count']}
    /\ UNCHANGED <<eventTables, coworking_booking, coworking_occupancy, loc>>

StartCreateBooking(p, in) ==
    /\ pc[p] = "idle"
    /\ Issue(in)
    /\ \E coworking_id \in RequestSpaceIds, booking_date \in Dates :
        req' = [req EXCEPT ![p] = [op |-> "create_booking",
                    coworking_id |-> coworking_id, booking_date |-> booking_date]]
    /\ Goto(p, "bk_check")
    /\ UNCHANGED <<eventTables, coworkingTables, uuid_count, loc>>

\* coworking_router.py 155-160: get_coworking_by_id inside the try block
BkCheck(p) ==
    /\ pc[p] = "bk_check"
    /\ \E fail \in BOOLEAN :
        IF fail
            THEN Finish(p, Response(CoworkingStatus(OperationalError, HTTP_200_OK),
                                    OperationalError, OperationalError, NoUuid))
        ELSE IF req[p].coworking_id \notin SpaceIds
            THEN Finish(p, Response(CoworkingStatus(HTTPException404, HTTP_200_OK),
                                    HTTPException404, NoError, NoUuid))
        ELSE Goto(p, "bk_insert")
    /\ UNCHANGED <<ncalls, eventTables, coworkingTables, uuid_count, req, loc>>

\* a statement of create_booking's transaction failed: the transaction rolls
\* back (database.py 26-30), the service wraps the error, the router answers
BookingFailed(p, err) ==
    Finish(p, Response(CoworkingStatus(WrapCoworkingError(err), HTTP_200_OK),
                       WrapCoworkingError(err), err, NoUuid))

\* a booking table without its foreign key
BookingDbErrorNoForeignKey(coworking_id) == NoError

\* tables.py 83-93: the outcome of the INSERT into coworking_booking, whose
\* coworking_id references coworking_space.id
BookingDbError(coworking_id) ==
    IF coworking_id \notin SpaceIds
        THEN ForeignKeyViolationError("coworking_booking_coworking_id_fkey")
        ELSE NoError

\* coworking_repository.py 164-178: BEGIN; INSERT INTO coworking_booking
BkInsert(p) ==
    /\ pc[p] = "bk_insert"
    /\ \E fail \in BOOLEAN :
        LET row == [coworking_id |-> req[p].coworking_id,
                    booking_date |-> req[p].booking_date]
            err == IF fail THEN OperationalError
                   ELSE BookingDbError(req[p].coworking_id)
            seen == AfterInsertBooking(coworking_booking, row)
        IN  IF err # NoError
              THEN /\ BookingFailed(p, err)
                   /\ UNCHANGED <<coworking_booking, loc>>
              ELSE /\ coworking_booking' = seen
                   /\ loc' = [loc EXCEPT ![p] =
                        [own |-> IF seen = coworking_booking
                                   THEN SetToBag({row}) ELSE EmptyBag,
                         before |-> CopiesIn(row, coworking_booking),
                         booking_count |-> 0, existing_record |-> FALSE]]
                   /\ Goto(p, "bk_count")
    /\ UNCHANGED <<ncalls, eventTables, coworking_space, coworking_occupancy,
                   uuid_count, req>>

\* coworking_repository.py 223-233
BkCount(p) ==
    /\ pc[p] = "bk_count"
    /\ \E fail \in BOOLEAN :
        IF fail
          THEN /\ BookingFailed(p, OperationalError)
               /\ UNCHANGED loc
          ELSE /\ loc' = [loc EXCEPT ![p].booking_count =
                            CountBookings(coworking_booking, loc[p].own,
                                          req[p].coworking_id, req[p].booking_date)]
               /\ Goto(p, "bk_exists")
    /\ UNCHANGED <<ncalls, eventTables, coworkingTables, uuid_count, req>>

\* coworking_repository.py 235-241
BkExists(p) ==
    /\ pc[p] = "bk_exists"
    /\ \E fail \in BOOLEAN :
        IF fail
          THEN /\ BookingFailed(p, OperationalError)
               /\ UNCHANGED loc
          ELSE /\ loc' = [loc EXCEPT ![p].existing_record =
                            OccupancyRows(coworking_occupancy, req[p].coworking_id,
                                          req[p].booking_date) # {}]
               /\ Goto(p, "bk_upsert")
    /\ UNCHANGED <<ncalls, eventTables, coworkingTables, uuid_count, req>>

\* coworking_repository.py 243-267 and the COMMIT at the end of session.begin()
BkUpsert(p) ==
    /\ pc[p] = "bk_upsert"
    /\ \E fail \in BOOLEAN :
        IF fail
          THEN /\ BookingFailed(p, OperationalError)
               /\ UNCHANGED <<coworking_booking, coworking_occupancy>>
          ELSE /\ coworking_booking' = coworking_booking (+) loc[p].own
               /\ coworking_occupancy' =
                    UpsertOccupancy(coworking_occupancy, loc[p].existing_record,
                                    req[p].coworking_id, req[p].booking_date,
                                    OccupancyPercentage(loc[p].booking_count))
               /\ Finish(p, Response(HTTP_200_OK, NoError, NoError, NoUuid))
    /\ UNCHANGED <<ncalls, eventTables, coworking_space, uuid_count, req, loc>>

StartDeleteCoworkingSpace(p, in) ==
    /\ pc[p] = "idle"
    /\ Issue(in)
    /\ \E coworking_id \in RequestSpaceIds :
        req' = [req EXCEPT ![p] = [op |-> "delete_coworking_space",
                                   coworking_id |-> coworking_id]]
    /\ Goto(p, "dc_check")
    /\ UNCHANGED <<eventTables, coworkingTables, uuid_count, loc>>

\* coworking_router.py 195-200
DcCheck(p) ==
    /\ pc[p] = "dc_check"
    /\ \E fail \in BOOLEAN :
        IF fail
            THEN Finish(p, Response(CoworkingStatus(OperationalError, HTTP_204_NO_CONTENT),
                                    OperationalError, OperationalError, NoUuid))
        ELSE IF req[p].coworking_id \notin SpaceIds
            THEN Finish(p, Response(CoworkingStatus(HTTPException404, HTTP_204_NO_CONTENT),
                                    HTTPException404, NoError, NoUuid))
        ELSE Goto(p, "dc_delete")
    /\ UNCHANGED <<ncalls, eventTables, coworkingTables, uuid_count, req, loc>>

\* coworking_router.py 202-226, coworking_service.py 115-129,
\* coworking_repository.py 126-143; the foreign keys of coworking_booking and
\* coworking_occupancy cascade.  The DELETE waits for the transactions that
\* hold the key-share lock of the row.
DcDelete(p) ==
    /\ pc[p] = "dc_delete"
    /\ ~HoldsSpaceLock(req[p].coworking_id)
    /\ \E fail \in BOOLEAN :
        LET raised == WrapCoworkingError(IF fail THEN OperationalError ELSE NoError)
        IN  /\ Finish(p, Response(CoworkingStatus(raised, HTTP_204_NO_CONTENT), raised,
                                  IF fail THEN OperationalError ELSE NoError, NoUuid))
            /\ IF fail
                 THEN UNCHANGED coworkingTables
                 ELSE /\ coworking_space' =
                            {c \in coworking_space : c.id # req[p].coworking_id}
                      /\ coworking_booking' =
                            CascadeSpaceRows(coworking_booking, req[p].coworking_id)
                      /\ coworking_occupancy' =
                            CascadeSpaceRows(coworking_occupancy, req[p].coworking_id)
    /\ UNCHANGED <<ncalls, eventTables, uuid_count, req, loc>>

CoworkingStep(p, in) ==
    \/ CreateCoworkingSpace(p, in)
    \/ StartCreateBooking(p, in)
    \/ BkCheck(p)
    \/ BkInsert(p)
    \/ BkCount(p)
    \/ BkExists(p)
    \/ BkUpsert(p)
    \/ StartDeleteCoworkingSpace(p, in)
    \/ DcCheck(p)
    \/ DcDelete(p)
    \/ Return(p)

ConcurrentCoworking == [cap |-> MaxCoworkingCalls, spaces |-> MaxSpaces]
OneCoworkingClient == [cap |-> MaxSeqCoworkingCalls, spaces |-> MaxSpaces]

\* two handlers, any interleaving of the statements of their transactions
NextCoworking == \E p \in Procs : CoworkingStep(p, ConcurrentCoworking)

SpecCoworking == Init /\ [][NextCoworking]_vars

\* one client: each call runs to completion before the next one is issued
NextCoworkingSeq == CoworkingStep("p1", OneCoworkingClient)

SpecCoworkingSeq == Init /\ [][NextCoworkingSeq]_vars

----------------------------------------------------------------------------
(* The whole application: the event and the coworking handlers side by side *)

\* the inputs of a run over every table
WholeApplication ==
    [cap |-> MaxAllCalls, dates |-> {DateTime(1, 0, 0)},
     orgs |-> {[name |-> None, description |-> None, image_path |-> None],
               [name |-> "Acme", description |-> "about", image_path |-> None]},
     new_titles |-> {None}, new_dates |-> {NoStartDate}, new_locations |-> {None},
     spaces |-> MaxSpaces]

\* two handlers of any endpoints, any interleaving of their units of work
NextAll ==
    \E p \in Procs :
        \/ EventStep(p, WholeApplication)
        \/ CoworkingStep(p, WholeApplication)

SpecAll == Init /\ [][NextAll]_vars

----------------------------------------------------------------------------
(* Startup: MockDataService.initialize_mock_data, run by the lifespan handler
   before the application serves its first request *)

\* mock_data_service.py 27, 32: the rows select(1).limit(1) returns. The
\* query names no table: it yields one row holding the literal 1, whatever
\* the database holds
SelectOneLimitOne(events, spaces) == <<1>>

\* mock_data_service.py 29, 34: "<result>.scalar() is not None"; scalar() is
\* the first column of the first row, None when there is no row
ScalarIsNotNone(rows) == rows # <<>>

\* mock_data_service.py 36: the condition of the early return
SkipSeeding(events_exist, coworking_exist) == events_exist /\ coworking_exist

\* mock_data_service.py 47-81: the mock events, their start dates in days from now
MockEvents ==
    <<[title |-> "Tech Conference 2023", days |-> 30, organizer_name |-> "TechEvents Inc."],
      [title |-> "Web Development Workshop", days |-> 15, organizer_name |-> "Code Masters"],
      [title |-> "Startup Pitch Night", days |-> 7, organizer_name |-> "Venture Connect"]>>

MockTitles == {MockEvents[k].title : k \in DOMAIN MockEvents}

\* mock_data_service.py 90-103: the number of mock coworking spaces
MockSpaces == 2

\* mock_data_service.py 83-84: create_event for each mock event, in order; the
\* k-th call draws the uuids first + 2k - 1 (its organizer, when the name is
\* new) and first + 2k (its event)
MockOrganizerId(organizers, first, k) ==
    IF FindOrganizer(organizers, MockEvents[k].organizer_name) = {}
        THEN first + 2 * k - 1
        ELSE CHOOSE id \in OrganizerIds :
                \E o \in FindOrganizer(organizers, MockEvents[k].organizer_name) : o.id = id

CreateMockEventRows(first) ==
    {[id |-> first + 2 * k, title |-> MockEvents[k].title,
      start_date |-> DateTime(MockEvents[k].days, 0, 0), location |-> "Room",
      updated_at |-> 0] : k \in DOMAIN MockEvents}

CreateMockOrganizerRows(organizers, first) ==
    {[id |-> first + 2 * k - 1, name |-> MockEvents[k].organizer_name,
      description |-> "about", image_path |-> "logo.png"] :
        k \in {j \in DOMAIN MockEvents :
                    FindOrganizer(organizers, MockEvents[j].organizer_name) = {}}}

CreateMockLinks(organizers, first) ==
    {[event_id |-> first + 2 * k, organizer_id |-> MockOrganizerId(organizers, first, k)] :
        k \in DOMAIN MockEvents}

\* mock_data_service.py 105-109: the ids of the mock spaces
MockSpaceIds(first) == {first + k : k \in 1..MockSpaces}

\* mock_data_service.py 125-129: on day i of the mock bookings a space gets
\* i % 3 + 1 bookings; the model keeps the first days, one per booking date
MockBookingCount(date) == IF date = "d1" THEN 1 ELSE 2

CreateMockBookings(first) ==
    [r \in {[coworking_id |-> c, booking_date |-> d] : c \in MockSpaceIds(first), d \in Dates}
        |-> MockBookingCount(r.booking_date)]

CreateMockOccupancy(first) ==
    SetToBag({[coworking_id |-> c, date |-> d,
               occupancy_percentage |-> OccupancyPercentage(MockBookingCount(d))] :
                    c \in MockSpaceIds(first), d \in Dates})

\* mock_data_service.py 25-34: the two checks, in one session
MdCheck(p) ==
    /\ pc[p] = "md_check"
    /\ \E fail \in BOOLEAN :
        IF fail
          THEN /\ Finish(p, Response(0, OperationalError, OperationalError, NoUuid))
               /\ UNCHANGED loc
          ELSE /\ loc' = [loc EXCEPT ![p] = 
                        [events_exist |->
                            ScalarIsNotNone(SelectOneLimitOne(event, coworking_space)),
                         coworking_exist |->
                            ScalarIsNotNone(SelectOneLimitOne(event, coworking_space))]]
               /\ Goto(p, "md_seed")
    /\ UNCHANGED <<ncalls, eventTables, coworkingTables, uuid_count, req>>

\* mock_data_service.py 36-43: return early, or create the mock events and
\* the mock coworking spaces with their bookings
MdSeed(p) ==
    /\ pc[p] = "md_seed"
    /\ Finish(p, Response(0, NoError, NoError, NoUuid))
    /\ IF SkipSeeding(loc[p].events_exist, loc[p].coworking_exist)
         THEN UNCHANGED <<eventTables, coworkingTables, uuid_count>>
         ELSE LET spaces == uuid_count + 2 * Len(MockEvents)
              IN  /\ event' = event \cup CreateMockEventRows(uuid_count)
                  /\ organizer' = organizer \cup CreateMockOrganizerRows(organizer, uuid_count)
                  /\ event_organizer' =
                        event_organizer \cup CreateMockLinks(organizer, uuid_count)
                  /\ coworking_space' =
                        coworking_space \cup {[id |-> c] : c \in MockSpaceIds(spaces)}
                  /\ coworking_booking' = coworking_booking (+) CreateMockBookings(spaces)
                  /\ coworking_occupancy' =
                        coworking_occupancy (+) CreateMockOccupancy(spaces)
                  /\ uuid_count' = spaces + MockSpaces
                  /\ UNCHANGED event_registration
    /\ UNCHANGED <<ncalls, req, loc>>

\* the databases a start can find: the rows earlier runs of the application left
StoredEvents ==
    {[id |-> 1, title |-> "Demo", start_date |-> DateTime(1, 0, 0),
      location |-> "Room", updated_at |-> 0],
     [id |-> 2, title |-> "Other", start_date |-> DateTime(1, 0, 0),
      location |-> "Room", updated_at |-> 0],
     [id |-> 3, title |-> "Demo", start_date |-> DateTime(1, 30, 0),
      location |-> "Hall", updated_at |-> 1]}
StoredSpaces == {[id |-> 4], [id |-> 5]}

\* fastapi_app.py 12-24: the lifespan handler starts initialize_mock_data
InitStartup ==
    /\ event \in SUBSET StoredEvents
    /\ organizer = {}
    /\ event_organizer = {}
    /\ event_registration = EmptyBag
    /\ coworking_space \in SUBSET StoredSpaces
    /\ coworking_booking = EmptyBag
    /\ coworking_occupancy = EmptyBag
    /\ uuid_count = Cardinality(StoredEvents) + Cardinality(StoredSpaces)
    /\ ncalls = 0
    /\ pc = [p \in Procs |-> IF p = "p1" THEN "md_check" ELSE "idle"]
    /\ req = [p \in Procs |-> IF p = "p1" THEN [op |-> "initialize_mock_data"] ELSE NoReq]
    /\ loc = [p \in Procs |-> NoLoc]
    /\ resp = [p \in Procs |-> NoResp]

NextStartup ==
    \/ MdCheck("p1")
    \/ MdSeed("p1")
    \/ Return("p1")

SpecStartup == InitStartup /\ [][NextStartup]_vars

----------------------------------------------------------------------------
(* Properties *)

Done(p, op) == pc[p] = "done" /\ req[p].op = op

\* the storage failed for a reason that is no integrity failure
Faulted(p) == resp[p].cause = OperationalError

\* C1: no two committed event rows have both the same title and the same
\* start_date, whatever create_event, update_event and delete_event calls ran
\* and however they interleaved.
C1_UniqueTitleStartDate ==
    \A e1, e2 \in event :
        (e1.title = e2.title /\ e1.start_date = e2.start_date) => e1 = e2

\* an update_event was refused by the constraint while two events share a title
C1_Witness ==
    /\ \E p \in Procs : Done(p, "update_event") /\ resp[p].cause = UniqueViolationError
    /\ \E e1, e2 \in event : e1 # e2 /\ e1.title = e2.title

\* start dates equal to the minute: the same instant up to its seconds
EqualToTheMinute(d1, d2) == ToUTC(d1).min = ToUTC(d2).min

\* C2: of two create_event calls with the same title and start dates equal to
\* the minute, the only calls issued, exactly one succeeds and the other one
\* is rejected with EventDuplicateError, however their steps interleave.
C2_ExactlyOneSucceeds ==
    \A p, q \in Procs :
        (/\ p # q
         /\ ncalls = 2
         /\ Done(p, "create_event") /\ Done(q, "create_event")
         /\ ~Faulted(p) /\ ~Faulted(q)
         /\ req[p].title = req[q].title
         /\ EqualToTheMinute(req[p].start_date, req[q].start_date))
        => \/ /\ resp[p].status = HTTP_201_CREATED
              /\ resp[q].raised = EventDuplicateError
           \/ /\ resp[q].status = HTTP_201_CREATED
              /\ resp[p].raised = EventDuplicateError

\* C3: a create_event call, one of a sequence, whose (title, start_date
\* truncated to the minute) differs from that of every event there is
\* succeeds, with an id no other event has.
C3_DistinctPairsSucceed ==
    \A p \in Procs :
        (/\ Done(p, "create_event")
         /\ ~Faulted(p)
         /\ ~\E e \in event :
                /\ e.id # resp[p].id
                /\ e.title = req[p].title
                /\ EqualToTheMinute(e.start_date, req[p].start_date))
        => /\ resp[p].status = HTTP_201_CREATED
           /\ Cardinality({e \in event : e.id = resp[p].id}) = 1

\* C4: when the insert of create_event violates uq_event_title_start_date the
\* service raises EventDuplicateError and POST /events/ answers 409; any
\* other integrity failure of the insert leaves the service as it was raised.
C4_ConstraintViolationIsDuplicate ==
    \A p \in Procs :
        Done(p, "create_event") =>
            /\ resp[p].cause = UniqueViolationError =>
                    /\ resp[p].raised = EventDuplicateError
                    /\ resp[p].status = HTTP_409_CONFLICT
            /\ (resp[p].cause.type = "IntegrityError"
                    /\ resp[p].cause # UniqueViolationError) =>
                    resp[p].raised = resp[p].cause

\* the pre-check of a create_event missed a race and its insert hit the constraint
C4_Witness ==
    \E p \in Procs :
        /\ Done(p, "create_event")
        /\ resp[p].cause = UniqueViolationError
        /\ resp[p].status = HTTP_409_CONFLICT

\* another integrity failure of the insert: the organizer it links to is gone
C4_OtherIntegrityFailureReached ==
    \E p \in Procs :
        /\ Done(p, "create_event")
        /\ resp[p].cause = ForeignKeyViolationError("event_organizer_organizer_id_fkey")

BookingRow(coworking_id, date) == [coworking_id |-> coworking_id, booking_date |-> date]

\* the copies of the occupancy rows of a space on a date
OccupancyCopies(coworking_id, date) ==
    BagCardinality(BagFilter(coworking_occupancy,
        LAMBDA r : r.coworking_id = coworking_id /\ r.date = date))

\* C5: the occupancy table holds at most one row for each (coworking_id,
\* date), and exactly one once a booking of the pair has committed.
C5_OneOccupancyRowPerPair ==
    \A c \in SpaceIds, d \in Dates :
        /\ OccupancyCopies(c, d) <= 1
        /\ CopiesIn(BookingRow(c, d), coworking_booking) >= 1 => OccupancyCopies(c, d) = 1

\* C6: after N >= 1 create_booking calls of a space and date, one after
\* another, the occupancy row of the pair has min(100, floor(N/10*100));
\* a booking beyond the 10th succeeds and leaves it at 100.
C6_PercentageOfCount ==
    /\ \A c \in SpaceIds, d \in Dates :
        LET N == CopiesIn(BookingRow(c, d), coworking_booking)
        IN  N >= 1 =>
                /\ OccupancyCopies(c, d) = 1
                /\ \A r \in OccupancyRows(coworking_occupancy, c, d) :
                        r.occupancy_percentage = IF N >= 10 THEN 100 ELSE 10 * N
    /\ \A p \in Procs :
        (/\ Done(p, "create_booking")
         /\ resp[p].cause = NoError
         /\ resp[p].raised = NoError)
        => /\ resp[p].status = HTTP_200_OK
           /\ CopiesIn(BookingRow(req[p].coworking_id, req[p].booking_date),
                       coworking_booking) = loc[p].before + 1

\* the 11th booking of a space and date has succeeded
C6_Witness ==
    \E p \in Procs :
        /\ Done(p, "create_booking")
        /\ resp[p].status = HTTP_200_OK
        /\ CopiesIn(BookingRow(req[p].coworking_id, req[p].booking_date),
                    coworking_booking) = 11
        /\ \E r \in OccupancyRows(coworking_occupancy, req[p].coworking_id,
                                  req[p].booking_date) : r.occupancy_percentage = 100

\* the transaction of create_booking got past its INSERT and then failed
FailedAfterInsert(p) ==
    /\ Done(p, "create_booking")
    /\ resp[p].status # HTTP_200_OK
    /\ "before" \in DOMAIN loc[p]

\* C7: when the occupancy recomputation or upsert of a create_booking fails,
\* the booking row of that call is not committed: the bookings of the pair
\* are those from before the call.
C7_BookingRolledBack ==
    \A p \in Procs :
        FailedAfterInsert(p) =>
            CopiesIn(BookingRow(req[p].coworking_id, req[p].booking_date),
                     coworking_booking) = loc[p].before

\* an upsert failed for a pair that already has bookings
C7_Witness ==
    \E p \in Procs :
        /\ FailedAfterInsert(p)
        /\ loc[p].before >= 1
        /\ loc[p].booking_count = loc[p].before + 1

\* C8: the stored occupancy_percentage of a (coworking_id, date) never
\* decreases from one committed state to the next.
C8_OccupancyNeverDecreases ==
    [][\A c \in SpaceIds, d \in Dates :
        (OccupancyCopies(c, d) = 1 /\ OccupancyCopies(c, d)' = 1) =>
            \A r \in OccupancyRows(coworking_occupancy, c, d) :
                \A r2 \in OccupancyRows(coworking_occupancy', c, d) :
                    r2.occupancy_percentage >= r.occupancy_percentage]_vars

\* C9: every occupancy row's occupancy_percentage is an integer from 0 to 100.
C9_PercentageInRange ==
    \A r \in BagToSet(coworking_occupancy) : r.occupancy_percentage \in 0..100

\* a date booked past max_bookings beside a date booked below it
C9_Witness ==
    \E c \in SpaceIds :
        /\ CopiesIn(BookingRow(c, "d1"), coworking_booking) > max_bookings
        /\ \E r \in OccupancyRows(coworking_occupancy, c, "d1") :
                r.occupancy_percentage = 100
        /\ \E r \in OccupancyRows(coworking_occupancy, c, "d2") :
                r.occupancy_percentage < 100

\* the organizer links of an event
LinksOf(event_id) == {l \in event_organizer : l.event_id = event_id}

\* C10: when create_event calls naming one organizer_name run one after
\* another, the first one creates the organizer row and every later one
\* reuses its id: there is one row of that name, and the event of each call
\* is linked to it.
C10_OrganizerReused ==
    /\ \A o1, o2 \in organizer : o1.name = o2.name => o1 = o2
    /\ \A p \in Procs :
        (/\ Done(p, "create_event")
         /\ resp[p].status = HTTP_201_CREATED
         /\ req[p].organizer_name # None)
        => \E o \in organizer :
                /\ o.name = req[p].organizer_name
                /\ LinksOf(resp[p].id) = {[event_id |-> resp[p].id, organizer_id |-> o.id]}

\* a second event was created for an organizer that was there: one organizer
\* row, two events linked to it
C10_Witness ==
    \E p \in Procs, o \in organizer :
        /\ Done(p, "create_event")
        /\ resp[p].status = HTTP_201_CREATED
        /\ req[p].organizer_name = o.name
        /\ Cardinality(organizer) = 1
        /\ Cardinality({l \in event_organizer : l.organizer_id = o.id}) = 2

\* C11: when the pre-check of create_event finds an event of the same title
\* and the same minute, the call ends there with EventDuplicateError and the
\* organizer, event and event_organizer tables are as they were; no step of
\* the call before the pre-check writes a table.
C11_PreCheckHitLeavesTables ==
    [][\A p \in Procs :
        /\ (pc[p] = "idle" /\ pc'[p] = "ce_precheck") =>
                UNCHANGED <<organizer, event, event_organizer>>
        /\ (/\ pc[p] = "ce_precheck" /\ pc'[p] # "ce_precheck"
            /\ resp'[p].cause # OperationalError
            /\ PreCheckDuplicate(event, req[p].title, req[p].start_date))
           => /\ pc'[p] = "done"
              /\ resp'[p].raised = EventDuplicateError
              /\ UNCHANGED <<organizer, event, event_organizer>>]_vars

\* a create_event naming an organizer there is no row of was stopped by the
\* pre-check
C11_Witness ==
    \E p \in Procs :
        /\ Done(p, "create_event")
        /\ resp[p].cause = PreCheckHit
        /\ resp[p].raised = EventDuplicateError
        /\ req[p].organizer_name # None
        /\ FindOrganizer(organizer, req[p].organizer_name) = {}

\* C12: every event has at most one event_organizer link row, however
\* create_event and update_event calls interleave; the update_event that has
\* written a new organizer_id leaves that link as the only one of its event.
C12_AtMostOneOrganizerLink ==
    /\ [](\A e \in EventIds : Cardinality(LinksOf(e)) <= 1)
    /\ [][\A p \in Procs :
            (/\ pc[p] = "idle" /\ pc'[p] = "done"
             /\ req'[p].op = "update_event"
             /\ resp'[p].raised = NoError
             /\ req'[p].organizer_id # NoUuid)
            => {l \in event_organizer' : l.event_id = req'[p].event_id} =
                    {[event_id |-> req'[p].event_id,
                      organizer_id |-> req'[p].organizer_id]}]_vars

\* an update_event moved an event to an organizer that has an event of its
\* own, and the organizer it left has none
C12_Witness ==
    \E p \in Procs, o \in organizer :
        /\ Done(p, "update_event")
        /\ resp[p].raised = NoError
        /\ req[p].organizer_id # NoUuid
        /\ {l \in event_organizer : l.organizer_id = o.id} = {}
        /\ Cardinality({l \in event_organizer :
                            l.organizer_id = req[p].organizer_id}) = 2
        /\ Cardinality(LinksOf(req[p].event_id)) = 1

\* C13: the event row and its event_organizer link are written by
\* create_event as one: with an organizer id resolved, the insert that
\* succeeds commits the event together with its link, and the one that fails
\* (the link's INSERT included) persists neither.
C13_EventAndLinkTogether ==
    [][\A p \in Procs :
        (/\ pc[p] = "ce_insert" /\ pc'[p] = "done"
         /\ loc[p].organizer_id # NoUuid)
        => IF resp'[p].cause = NoError
             THEN /\ \E e \in event' : e.id = resp'[p].id /\ event' = event \cup {e}
                  /\ [event_id |-> resp'[p].id,
                      organizer_id |-> loc[p].organizer_id] \in event_organizer'
             ELSE UNCHANGED <<event, event_organizer>>]_vars

\* the link's INSERT of a create_event failed, and no event of its title is
\* there
C13_Witness ==
    \E p \in Procs :
        /\ Done(p, "create_event")
        /\ loc[p].organizer_id # NoUuid
        /\ resp[p].cause = ForeignKeyViolationError("event_organizer_organizer_id_fkey")
        /\ ~\E e \in event : e.title = req[p].title

C15_DeleteSpaceCascades ==
    /\ [](\A r \in BagToSet(coworking_booking) \cup BagToSet(coworking_occupancy) :
                r.coworking_id \in SpaceIds)
    /\ [][/\ \A c \in 1..uuid_count : c \notin SpaceIds => c \notin SpaceIds'
          /\ \A p \in Procs :
                (/\ pc[p] = "dc_delete" /\ pc'[p] = "done"
                 /\ resp'[p].raised = NoError)
                => LET id == req[p].coworking_id
                       Others(rows) == BagFilter(rows, LAMBDA r : r.coworking_id # id)
                   IN  /\ id \notin SpaceIds'
                       /\ coworking_booking' = Others(coworking_booking)
                       /\ coworking_occupancy' = Others(coworking_occupancy)
                       /\ SpaceIds' = SpaceIds \ {id}]_vars

\* a booking of a space was committed, and the delete of the space that
\* completed after it left no row of the space
C15_Witness ==
    \E p, q \in Procs :
        /\ Done(p, "delete_coworking_space")
        /\ resp[p].status = HTTP_204_NO_CONTENT
        /\ Done(q, "create_booking")
        /\ resp[q].status = HTTP_200_OK
        /\ req[q].coworking_id = req[p].coworking_id
        /\ req[p].coworking_id \notin SpaceIds
        /\ \A r \in BagToSet(coworking_booking) \cup BagToSet(coworking_occupancy) :
                r.coworking_id # req[p].coworking_id

\* C16: a space and date with no committed booking has no occupancy row; the
\* row appears in the state that commits the first booking of the pair, and
\* in no other.
C16_NoOccupancyBeforeFirstBooking ==
    /\ [](\A c \in SpaceIds, d \in Dates :
            CopiesIn(BookingRow(c, d), coworking_booking) = 0 => OccupancyCopies(c, d) = 0)
    /\ [][\A c \in SpaceIds, d \in Dates :
            /\ (/\ CopiesIn(BookingRow(c, d), coworking_booking) = 0
                /\ CopiesIn(BookingRow(c, d), coworking_booking') > 0)
               => OccupancyCopies(c, d)' = 1
            /\ (OccupancyCopies(c, d) = 0 /\ OccupancyCopies(c, d)' > 0)
               => /\ CopiesIn(BookingRow(c, d), coworking_booking) = 0
                  /\ CopiesIn(BookingRow(c, d), coworking_booking') = 1]_vars

\* the first booking of a date has committed its occupancy row, and another
\* date of the space, not booked, has none
C16_Witness ==
    \E p \in Procs, d \in Dates :
        /\ Done(p, "create_booking")
        /\ resp[p].status = HTTP_200_OK
        /\ req[p].coworking_id \in SpaceIds
        /\ CopiesIn(BookingRow(req[p].coworking_id, req[p].booking_date),
                    coworking_booking) = 1
        /\ OccupancyCopies(req[p].coworking_id, req[p].booking_date) = 1
        /\ d # req[p].booking_date
        /\ CopiesIn(BookingRow(req[p].coworking_id, d), coworking_booking) = 0
        /\ OccupancyCopies(req[p].coworking_id, d) = 0

\* C17: POST /events/{id}/register answers 404 whenever the event is not
\* there: when the router's check finds none, and when the INSERT of the
\* registration finds none (the event was deleted after the check).
C17_RegisterMissingEventIs404 ==
    \A p \in Procs :
        (/\ Done(p, "register")
         /\ \/ resp[p].raised = HTTPException404
            \/ resp[p].cause = ForeignKeyViolationError("event_registration_event_id_fkey"))
        => resp[p].status = HTTP_404_NOT_FOUND

\* the operations behind an endpoint
Endpoints ==
    {"create_event", "delete_event", "register",
     "create_coworking_space", "create_booking", "delete_coworking_space"}

\* C18: a storage failure met by an endpoint that is neither a not-found nor
\* a duplicate event is answered with a 5xx status, never with a 4xx one.
C18_StorageFailureIs5xx ==
    \A p \in Procs :
        (pc[p] = "done" /\ req[p].op \in Endpoints /\ Faulted(p))
        => resp[p].status >= 500

\* C19: the 404 a coworking handler raises inside its try block because the
\* space is not there (booking, delete) is the status the client gets.
C19_NotFoundPassesThrough ==
    [][\A p \in Procs :
        (/\ pc[p] \in {"bk_check", "dc_check"}
         /\ req[p].coworking_id \notin SpaceIds
         /\ pc'[p] # pc[p])
        => /\ pc'[p] = "done"
           /\ \/ resp'[p].cause = OperationalError
              \/ /\ resp'[p].raised = HTTPException404
                 /\ resp'[p].status = HTTP_404_NOT_FOUND]_vars

\* a booking and a delete of a space that is not there were both answered 404
C19_Witness ==
    \E p, q \in Procs :
        /\ Done(p, "create_booking") /\ Done(q, "delete_coworking_space")
        /\ req[p].coworking_id \notin SpaceIds /\ req[q].coworking_id \notin SpaceIds
        /\ resp[p].status = HTTP_404_NOT_FOUND /\ resp[q].status = HTTP_404_NOT_FOUND

\* the operations of EventService and CoworkingService
ServiceOperations == Endpoints \cup {"update_event"}

\* C20: what leaves a service method after a data-access failure is a domain
\* error, EventDuplicateError or CoworkingError, never the storage's own
\* exception.
C20_OnlyDomainErrorsLeaveServices ==
    \A p \in Procs :
        (pc[p] = "done" /\ req[p].op \in ServiceOperations
            /\ resp[p].cause \notin {NoError, PreCheckHit})
        => resp[p].raised \in {EventDuplicateError, CoworkingError}

\* C21: delete_event(id) removes the event row and the event_organizer links
\* of that event; every organizer row, the one that was linked included, every
\* other event and every other link is as it was.
C21_DeleteEventFrame ==
    [][\A p \in Procs :
        (/\ pc[p] = "de_delete" /\ pc'[p] = "done"
         /\ resp'[p].raised = NoError)
        => LET id == req[p].event_id
           IN  /\ event' = {e \in event : e.id # id}
               /\ event_organizer' = {l \in event_organizer : l.event_id # id}
               /\ organizer' = organizer]_vars

\* an event created with an organizer was deleted, and the organizer is there
C21_Witness ==
    \E p, q \in Procs :
        /\ Done(p, "delete_event") /\ resp[p].status = HTTP_204_NO_CONTENT
        /\ Done(q, "create_event") /\ resp[q].status = HTTP_201_CREATED
        /\ req[q].organizer_name # None
        /\ resp[q].id = req[p].event_id
        /\ req[p].event_id \notin EventIds
        /\ LinksOf(req[p].event_id) = {}
        /\ \E o \in organizer : o.name = req[q].organizer_name

\* C22: an error of the pre-check scan that is not the duplicate signal does
\* not end create_event: the pre-check ends the call only with
\* EventDuplicateError for a duplicate it found; after a failed scan the
\* insert decides: the event is created, or the constraint violation is
\* raised as EventDuplicateError.
C22_PreCheckIsBestEffort ==
    [][\A p \in Procs :
        /\ (pc[p] = "ce_precheck" /\ pc'[p] = "done")
           => /\ resp'[p].raised = EventDuplicateError
              /\ PreCheckDuplicate(event, req[p].title, req[p].start_date)
        /\ (/\ pc[p] = "ce_insert" /\ pc'[p] = "done"
            /\ resp[p].cause = OperationalError
            /\ resp'[p].cause.type # "OperationalError")
           => IF UqEventTitleStartDate(event, req[p].title,
                                       ToUTC(req[p].start_date), NoUuid)
                THEN /\ resp'[p].raised = EventDuplicateError
                     /\ event' = event
                ELSE /\ resp'[p].status = HTTP_201_CREATED
                     /\ \E e \in event' \ event : e.id = resp'[p].id]_vars

\* a create_event whose scan failed has created an event beside one of its
\* title and minute, which the scan would have found
C22_Witness ==
    \E p \in Procs, e \in event :
        /\ Done(p, "create_event")
        /\ resp[p].status = HTTP_201_CREATED
        /\ e.id # resp[p].id
        /\ e.title = req[p].title
        /\ SameMinuteFields(e.start_date, req[p].start_date)

\* every handler is between calls or has its response
Quiescent == \A p \in Procs : pc[p] \in {"idle", "done"}

\* C23: the create_booking that commits writes the percentage of the count
\* its own transaction read over whatever the pair's row holds, so of two
\* concurrent bookings that read the same count the last writer wins; a
\* quiescent state with a stored percentage below that of the committed
\* bookings is reachable (C23_Witness).
C23_LastWriterWins ==
    [][\A p \in Procs :
        (/\ pc[p] = "bk_upsert" /\ pc'[p] = "done"
         /\ resp'[p].raised = NoError
         /\ loc[p].existing_record)
        => \A r \in OccupancyRows(coworking_occupancy', req[p].coworking_id,
                                   req[p].booking_date) :
                r.occupancy_percentage = OccupancyPercentage(loc[p].booking_count)]_vars

\* two bookings of a pair read the same count and both committed; nothing is
\* running, the pair has one occupancy row, and it holds less than the
\* percentage of the bookings committed
C23_Witness ==
    \E p, q \in Procs :
        /\ p # q /\ Quiescent
        /\ Done(p, "create_booking") /\ Done(q, "create_booking")
        /\ resp[p].status = HTTP_200_OK /\ resp[q].status = HTTP_200_OK
        /\ req[p].coworking_id = req[q].coworking_id
        /\ req[p].booking_date = req[q].booking_date
        /\ loc[p].booking_count = loc[q].booking_count
        /\ OccupancyCopies(req[p].coworking_id, req[p].booking_date) = 1
        /\ \A r \in OccupancyRows(coworking_occupancy, req[p].coworking_id,
                                   req[p].booking_date) :
                r.occupancy_percentage <
                    OccupancyPercentage(CopiesIn(BookingRow(req[p].coworking_id,
                                                            req[p].booking_date),
                                                 coworking_booking))

\* C24: after any sequence of create_event, update_event and delete_event
\* calls, one at a time, no two event rows have the same title and the same
\* start_date to the minute.
C24_UniqueTitleMinuteSequential ==
    \A e1, e2 \in event :
        (e1.title = e2.title /\ EqualToTheMinute(e1.start_date, e2.start_date))
        => e1 = e2

\* C25: a create_event that ends in EventDuplicateError leaves the organizer
\* table as it was before the call. With one client the row whose id is the
\* last uuid drawn when the insert starts is the row this call created
\* (CeOrgCreate drew it), so a call that ends in EventDuplicateError at the
\* insert must not hold that id; a call ended by the pre-check has not
\* reached the organizer table at all.
C25_FailedCreateKeepsOrganizers ==
    [][\A p \in Procs :
        (/\ pc[p] \in {"ce_precheck", "ce_insert"}
         /\ pc'[p] = "done"
         /\ resp'[p].raised = EventDuplicateError)
        => /\ organizer' = organizer
           /\ ~(\E o \in organizer :
                    /\ o.id = loc[p].organizer_id
                    /\ o.id = uuid_count
                    /\ pc[p] = "ce_insert")]_vars

\* C26: however concurrent create_event calls that name the same organizer
\* interleave, at most one organizer row has that name, and every event such
\* a call created links to a row of that name.
C26_OneOrganizerPerName ==
    /\ \A o1, o2 \in organizer : o1.name = o2.name => o1 = o2
    /\ \A p \in Procs :
        (/\ Done(p, "create_event")
         /\ resp[p].raised = NoError
         /\ req[p].organizer_name # None)
        => \A l \in event_organizer :
              l.event_id = resp[p].id
              => \E o \in organizer :
                    o.id = l.organizer_id /\ o.name = req[p].organizer_name

\* C27: update_event is all-or-nothing: when the organizer link cannot be
\* replaced because the organizer_id or the event_id does not exist, the call
\* raises, and the event rows (fields and updated_at) and the organizer links
\* are what they were before the call.
C27_UpdateAllOrNothing ==
    [][\A p \in Procs :
        (/\ pc[p] = "idle"
         /\ pc'[p] = "done"
         /\ req'[p].op = "update_event"
         /\ req'[p].organizer_id # NoUuid
         /\ (req'[p].event_id \notin EventIds
                \/ req'[p].organizer_id \notin OrganizerIds))
        => /\ resp'[p].raised # NoError
           /\ event' = event
           /\ event_organizer' = event_organizer]_vars

\* an update with a new title and an organizer_id that does not exist has
\* failed on the foreign key; the event is unwritten and keeps its link
C27_Witness ==
    \E p \in Procs :
        /\ Done(p, "update_event")
        /\ resp[p].raised = ForeignKeyViolationError("event_organizer_organizer_id_fkey")
        /\ req[p].title # None
        /\ req[p].organizer_id \notin OrganizerIds
        /\ \E e \in event :
            /\ e.id = req[p].event_id
            /\ e.title # req[p].title
            /\ e.updated_at = 0
            /\ \E l \in event_organizer :
                  l.event_id = e.id /\ l.organizer_id # req[p].organizer_id

\* C28: in every reachable state, however creates and deletes interleave,
\* every booking and occupancy row references an existing coworking space,
\* every registration an existing event, and every event_organizer link an
\* existing event and an existing organizer.
C28_ReferencesExist ==
    /\ \A r \in BagToSet(coworking_booking) : r.coworking_id \in SpaceIds
    /\ \A r \in BagToSet(coworking_occupancy) : r.coworking_id \in SpaceIds
    /\ \A r \in BagToSet(event_registration) : r.event_id \in EventIds
    /\ \A l \in event_organizer :
            l.event_id \in EventIds /\ l.organizer_id \in OrganizerIds

\* a delete of the space ran between the existence check of a booking and
\* its insert: the delete completed, the insert met the foreign key
C28_Witness ==
    \E p, q \in Procs :
        /\ Done(p, "create_booking")
        /\ resp[p].cause = ForeignKeyViolationError("coworking_booking_coworking_id_fkey")
        /\ Done(q, "delete_coworking_space")
        /\ resp[q].status = HTTP_204_NO_CONTENT
        /\ req[q].coworking_id = req[p].coworking_id
        /\ req[p].coworking_id \notin SpaceIds

\* C29: a create_booking for (coworking_id, date) adds exactly one booking
\* row and changes only the occupancy rows of that pair: the step that commits
\* it leaves every existing booking row and the occupancy rows of every other
\* space and of every other date as they were, and no other step of the call
\* writes to either table.
C29_CreateBookingFrame ==
    [][\A p \in Procs :
        (pc[p] \in {"bk_check", "bk_insert", "bk_count", "bk_exists", "bk_upsert"}
            /\ pc'[p] # pc[p])
        => IF pc[p] = "bk_upsert" /\ resp'[p].raised = NoError
             THEN LET id == req[p].coworking_id
                      date == req[p].booking_date
                      Others(rows) ==
                        BagFilter(rows, LAMBDA r : ~(r.coworking_id = id /\ r.date = date))
                  IN  /\ coworking_booking' =
                            BagAdd(coworking_booking,
                                   [coworking_id |-> id, booking_date |-> date])
                      /\ Others(coworking_occupancy') = Others(coworking_occupancy)
             ELSE /\ coworking_booking' = coworking_booking
                  /\ coworking_occupancy' = coworking_occupancy]_vars

\* a booking that found the occupancy row of its pair was committed while the
\* space holds a booking and an occupancy row of another date, with another
\* percentage
C29_Witness ==
    \E p \in Procs :
        /\ Done(p, "create_booking")
        /\ resp[p].status = HTTP_200_OK
        /\ loc[p].existing_record
        /\ \E r \in BagToSet(coworking_occupancy), b \in BagToSet(coworking_booking) :
            /\ r.coworking_id = req[p].coworking_id
            /\ r.date # req[p].booking_date
            /\ r.occupancy_percentage # OccupancyPercentage(loc[p].booking_count)
            /\ b.coworking_id = req[p].coworking_id
            /\ b.booking_date = r.date

\* C30: initialize_mock_data seeds the mock events and the mock coworking
\* spaces when the database holds no events or no coworking spaces, and
\* leaves the database alone only when it holds both.
C30_SeedsUnlessBothExist ==
    [][\A p \in Procs :
        (pc[p] = "md_seed" /\ pc'[p] = "done" /\ resp'[p].raised = NoError)
        => IF event # {} /\ coworking_space # {}
             THEN /\ event' = event
                  /\ coworking_space' = coworking_space
             ELSE /\ MockTitles \subseteq {e.title : e \in event'}
                  /\ Cardinality(coworking_space') =
                        Cardinality(coworking_space) + MockSpaces]_vars

====
